---- MODULE Spec2Model ----
(***************************************************************************)
(* Model of script/process_wiki_dump.py: clean_wikitext, the wikitext to   *)
(* Markdown pipeline.  Text is a sequence of one-character strings, so     *)
(* that str methods and regular expressions are computed character by      *)
(* character as Python computes them.                                      *)
(***************************************************************************)
EXTENDS Naturals, Sequences, FiniteSets, TLC

VARIABLES
    pc,                 \* position in clean_wikitext
    wikitext,           \* the raw markup argument (entry guard and pre-normalizer)
    steps,              \* the stages clean_wikitext has run on this call, in order
    result,             \* the returned string, NoValue before the return
    doc,                \* parsed: the document's nodes in document order
    dead,               \* indices of the nodes whose span is dead
    repl,               \* node index -> the string a template or table was replaced by
    queue,              \* the rest of the snapshot list the current pass iterates
    visited,            \* per pass, the node indices the loop body was entered for
    outcome,            \* node index -> what the template pass did with it
    raw_text,           \* parsed.plain_text()
    lines,              \* raw_text.split('\n')
    i,                  \* the Line Transformer's index into lines
    transformed_lines,  \* the Line Transformer's output list
    final_text,         \* the assembled text, rewritten by pass 7
    pass,               \* 1: first run of passes 5-7, 2: the run on its own output
    first_output        \* the text the first run returned

vars == <<pc, wikitext, steps, result, doc, dead, repl, queue, visited, outcome, raw_text,
          lines, i, transformed_lines, final_text, pass, first_output>>

\* a variable that holds no text yet; no text of the model holds this character
NoValue == <<"NoValue">>

----------------------------------------------------------------------------
(* Characters and str methods *)

BULLET == "U+2022"   \* the bullet glyph, one character
NDASH == "U+2013"    \* the en dash, one character

UpperLetters == <<"A", "B", "C", "D", "E", "F", "G", "H", "I", "J", "K", "L", "M", "N", "O", "P", "Q", "R", "S", "T", "U", "V", "W", "X", "Y", "Z">>
LowerLetters == <<"a", "b", "c", "d", "e", "f", "g", "h", "i", "j", "k", "l", "m", "n", "o", "p", "q", "r", "s", "t", "u", "v", "w", "x", "y", "z">>
Digits == <<"0", "1", "2", "3", "4", "5", "6", "7", "8", "9">>

\* str.isspace for one character
IsSpace(c) == c \in {" ", "\t", "\n", "\r"}

LowerChar(c) ==
    IF \E k \in 1..26 : UpperLetters[k] = c
    THEN LowerLetters[CHOOSE k \in 1..26 : UpperLetters[k] = c]
    ELSE c

\* str.lower
lower(s) == [k \in 1..Len(s) |-> LowerChar(s[k])]

\* the length of the longest prefix of s made of characters of set
RECURSIVE CountLeading(_, _)
CountLeading(s, set) ==
    IF s # <<>> /\ Head(s) \in set THEN 1 + CountLeading(Tail(s), set) ELSE 0

\* the length of the longest suffix of s made of characters of set
RECURSIVE CountTrailing(_, _)
CountTrailing(s, set) ==
    IF s # <<>> /\ s[Len(s)] \in set
    THEN 1 + CountTrailing(SubSeq(s, 1, Len(s) - 1), set) ELSE 0

DropLeading(s, set) == SubSeq(s, CountLeading(s, set) + 1, Len(s))
DropTrailing(s, set) == SubSeq(s, 1, Len(s) - CountTrailing(s, set))

WhiteSpace == {" ", "\t", "\n", "\r"}

\* str.lstrip(), str.rstrip(), str.strip()
lstrip(s) == DropLeading(s, WhiteSpace)
rstrip(s) == DropTrailing(s, WhiteSpace)
strip(s) == rstrip(lstrip(s))

\* str.rstrip(c)
rstripChar(s, c) == DropTrailing(s, {c})

\* str.startswith, str.endswith, the in operator on str
startswith(s, p) == Len(s) >= Len(p) /\ SubSeq(s, 1, Len(p)) = p
endswith(s, p) == Len(s) >= Len(p) /\ SubSeq(s, Len(s) - Len(p) + 1, Len(s)) = p
contains(s, p) == \E k \in 1..(Len(s) + 1) : startswith(SubSeq(s, k, Len(s)), p)

\* the first index of s holding c, 0 when there is none
IndexOf(s, c) ==
    IF \E k \in 1..Len(s) : s[k] = c
    THEN CHOOSE k \in 1..Len(s) : s[k] = c /\ \A j \in 1..(k - 1) : s[j] # c
    ELSE 0

\* str.split(c) for a one-character separator
RECURSIVE split(_, _)
split(s, c) ==
    IF IndexOf(s, c) = 0 THEN <<s>>
    ELSE <<SubSeq(s, 1, IndexOf(s, c) - 1)>>
         \o split(SubSeq(s, IndexOf(s, c) + 1, Len(s)), c)

\* sep.join(parts)
RECURSIVE join(_, _)
join(parts, sep) ==
    IF parts = <<>> THEN <<>>
    ELSE IF Len(parts) = 1 THEN parts[1]
    ELSE parts[1] \o sep \o join(Tail(parts), sep)

\* str.replace(c, by) for a one-character c
RECURSIVE replace(_, _, _)
replace(s, c, by) ==
    IF s = <<>> THEN <<>>
    ELSE (IF Head(s) = c THEN by ELSE <<Head(s)>>) \o replace(Tail(s), c, by)

\* str(n) for a natural number
RECURSIVE NatToStr(_)
NatToStr(n) ==
    IF n < 10 THEN <<Digits[n + 1]>>
    ELSE NatToStr(n \div 10) \o <<Digits[(n % 10) + 1]>>

\* s * n
RECURSIVE Repeat(_, _)
Repeat(s, n) == IF n = 0 THEN <<>> ELSE s \o Repeat(s, n - 1)

Min(a, b) == IF a < b THEN a ELSE b

----------------------------------------------------------------------------
(* Pass 5: the Line Transformer (lines 166-249).  idx is the 0-based index *)
(* i of the current line; lns[idx + 1] is lines[i].                        *)

\* lines 178-183: the filter of unwanted lines
IsNoise(line) ==
    LET stripped_line == strip(line)
        lower_stripped_line == lower(stripped_line)
    IN  \/ stripped_line = <<>>
        \/ \A k \in 1..Len(stripped_line) : stripped_line[k] \in {BULLET, " "}
        \/ startswith(stripped_line, <<"C", "a", "t", "e", "g", "o", "r", "y", ":">>)
        \/ startswith(lower_stripped_line, <<"m", "a", "i", "n", " ", "a", "r", "t", "i", "c", "l", "e", ":">>)
        \/ startswith(lower_stripped_line, <<"f", "o", "r", " ", "a", " ", "l", "i", "s", "t", " ", "o", "f">>)
        \/ contains(lower_stripped_line, <<":", "c", "a", "t", "e", "g", "o", "r", "y", ":">>)

\* line 190: stripped_line.startswith(('*', '#', ';', ':', '='))
StartsWithMarker(stripped_line) ==
    stripped_line # <<>> /\ Head(stripped_line) \in {"*", "#", ";", ":", "="}

\* lines 189-190 without the test of the line's first character
MergeAfterColon(tl, line) ==
    /\ tl # <<>>
    /\ endswith(tl[Len(tl)], <<":">>)

\* lines 189-190: the condition of the context-aware merge
MergeApplies(tl, line) ==
    /\ tl # <<>>
    /\ endswith(tl[Len(tl)], <<":">>)
    /\ ~StartsWithMarker(strip(line))

\* line 196: re.match(r'^\s*(={2,6})\s*(.*?)\s*(=*)\s*$', stripped_line)
HeadingMatches(stripped_line) == CountLeading(stripped_line, {"="}) >= 2

\* line 198: len(group(1)); the greedy ={2,6} takes at most six
HeadingLevel(stripped_line) == Min(CountLeading(stripped_line, {"="}), 6)

\* group(2): the lazy (.*?) leaves the longest \s*(=*)\s* suffix to the rest
HeadingGroup2(stripped_line) ==
    LET rest == lstrip(SubSeq(stripped_line, HeadingLevel(stripped_line) + 1,
                              Len(stripped_line)))
    IN  rstrip(rstripChar(rstrip(rest), "="))

\* lines 199-200
HeadingLine(stripped_line) ==
    Repeat(<<"#">>, HeadingLevel(stripped_line)) \o <<" ">>
        \o rstripChar(strip(HeadingGroup2(stripped_line)), ":")

\* line 205: re.match(r'^([*#;:]+)\s*(.*)', stripped_line)
MarkerChars == {"*", "#", ";", ":"}
ListMatches(stripped_line) == CountLeading(stripped_line, MarkerChars) >= 1
Markers(stripped_line) ==
    SubSeq(stripped_line, 1, CountLeading(stripped_line, MarkerChars))

\* lines 207-208: group(2).strip()
ItemText(stripped_line) == strip(DropLeading(stripped_line, MarkerChars))

\* lines 212-220: the lookahead past blank lines to the next non-blank line
IsSubheading(lns, idx) ==
    LET later == {k \in (idx + 2)..Len(lns) : strip(lns[k]) # <<>>}
    IN  \/ later = {}
        \/ LET next_line_index == CHOOSE k \in later : \A j \in later : k <= j
           IN  ~startswith(strip(lns[next_line_index]), <<"*">>)

\* line 222
SubheadingLine(item_text) == <<"*", "*">> \o rstripChar(item_text, ":") \o <<":", "*", "*">>

\* line 229: re.split(r':\s', full_term_line, 1)
ColonSpaceAt(s) ==
    LET at == {k \in 1..(Len(s) - 1) : s[k] = ":" /\ IsSpace(s[k + 1])}
    IN  IF at = {} THEN 0 ELSE CHOOSE k \in at : \A j \in at : k <= j

\* lines 228-232: a definition term
DefinitionLine(markers, item_text) ==
    LET full_term_line == strip(Tail(markers) \o item_text)
        at == ColonSpaceAt(full_term_line)
        part0 == IF at = 0 THEN full_term_line ELSE SubSeq(full_term_line, 1, at - 1)
        term == rstripChar(strip(part0), ":")
        definition ==
            IF at = 0 THEN <<>>
            ELSE strip(SubSeq(full_term_line, at + 2, Len(full_term_line)))
    IN  <<"*", "*">> \o term \o <<":", "*", "*">>
            \o (IF definition # <<>> THEN <<" ">> \o definition ELSE <<>>)

\* line 235: re.sub(r'\((.*?)\)', ..., item_text): bullets inside parentheses
\* become ', '
RECURSIVE ParenBulletsToCommas(_)
ParenBulletsToCommas(s) ==
    LET open == IndexOf(s, "(")
        after == SubSeq(s, open + 1, Len(s))
        close == IndexOf(after, ")")
    IN  IF open = 0 \/ close = 0 THEN s
        ELSE SubSeq(s, 1, open) \o replace(SubSeq(after, 1, close - 1), BULLET, <<",", " ">>)
                 \o <<")">> \o ParenBulletsToCommas(SubSeq(after, close + 1, Len(after)))

NonEmpty(s) == s # <<>>

\* lines 234-239: an indented description
DescriptionLines(item_text) ==
    IF \E k \in 1..Len(item_text) : item_text[k] = BULLET
    THEN LET parts == split(ParenBulletsToCommas(item_text), BULLET)
             items == SelectSeq([k \in 1..Len(parts) |-> strip(parts[k])], NonEmpty)
         IN  [k \in 1..Len(items) |-> <<"-", " ">> \o items[k]]
    ELSE <<item_text>>

\* lines 240-245: standard '*' and '#' lists
StandardListLine(markers, item_text) ==
    LET indent == Repeat(<<" ", " ">>, Len(markers) - 1)
        marker == IF markers[Len(markers)] = "*" THEN <<"-">> ELSE <<"1", ".">>
        text == IF endswith(item_text, <<":">>)
                THEN strip(rstripChar(item_text, ":")) ELSE item_text
    IN  indent \o marker \o <<" ">> \o text

\* lines 195-247: what a line that is neither noise nor merged appends
Emitted(lns, idx) ==
    LET stripped_line == strip(lns[idx + 1])
        markers == Markers(stripped_line)
        item_text == ItemText(stripped_line)
    IN  IF HeadingMatches(stripped_line) THEN <<HeadingLine(stripped_line)>>
        ELSE IF ListMatches(stripped_line) THEN
            IF markers = <<"*">> /\ IsSubheading(lns, idx)
            THEN <<SubheadingLine(item_text)>>
            ELSE IF Head(markers) = ";" THEN <<DefinitionLine(markers, item_text)>>
            ELSE IF Head(markers) = ":" THEN DescriptionLines(item_text)
            ELSE <<StandardListLine(markers, item_text)>>
        ELSE <<stripped_line>>

\* lines 172-249: one iteration of the while loop
TransformStep(tl, lns, idx) ==
    IF IsNoise(lns[idx + 1]) THEN Append(tl, <<>>)
    ELSE IF MergeApplies(tl, lns[idx + 1])
    THEN [tl EXCEPT ![Len(tl)] = @ \o <<" ">> \o strip(lns[idx + 1])]
    ELSE tl \o Emitted(lns, idx)

----------------------------------------------------------------------------
(* Pass 6: the Block Assembler (lines 251-265) *)

\* lines 255-263: the loop over transformed_lines
RECURSIVE BlocksFrom(_, _, _)
BlocksFrom(tl, current_block, blocks) ==
    IF tl = <<>>
    THEN IF current_block # <<>> THEN Append(blocks, join(current_block, <<"\n">>))
         ELSE blocks
    ELSE IF strip(Head(tl)) # <<>>
    THEN BlocksFrom(Tail(tl), Append(current_block, Head(tl)), blocks)
    ELSE BlocksFrom(Tail(tl), <<>>,
                    IF current_block # <<>>
                    THEN Append(blocks, join(current_block, <<"\n">>)) ELSE blocks)

\* line 265 with every non-blank line a block of its own
AssembleLinesApart(tl) ==
    LET NonBlank(line) == strip(line) # <<>>
    IN  join(SelectSeq(tl, NonBlank), <<"\n", "\n">>)

\* line 265
AssembleText(tl) == join(BlocksFrom(tl, <<>>, <<>>), <<"\n", "\n">>)

----------------------------------------------------------------------------
(* Pass 7: the Finisher (lines 267-287) *)

ClosePunct == {",", ".", "!", "?", ")"}

\* line 268: re.sub(r'\s+([,.!?)])', r'\1', final_text)
RECURSIVE FixSpacing(_)
FixSpacing(s) ==
    LET k == CountLeading(s, WhiteSpace)
    IN  IF s = <<>> THEN <<>>
        ELSE IF k = 0 THEN <<Head(s)>> \o FixSpacing(Tail(s))
        ELSE IF k < Len(s) /\ s[k + 1] \in ClosePunct
        THEN <<s[k + 1]>> \o FixSpacing(SubSeq(s, k + 2, Len(s)))
        ELSE SubSeq(s, 1, k) \o FixSpacing(SubSeq(s, k + 1, Len(s)))

\* the length of a match of \(\s*[;,]\s*\) at the start of s, 0 when none
ArtifactLen(s) ==
    IF s = <<>> \/ Head(s) # "(" THEN 0
    ELSE LET a == lstrip(Tail(s))
         IN  IF a = <<>> \/ Head(a) \notin {";", ","} THEN 0
             ELSE LET b == lstrip(Tail(a))
                  IN  IF b = <<>> \/ Head(b) # ")" THEN 0
                      ELSE Len(s) - Len(b) + 1

\* line 269: re.sub(r'\(\s*[;,]\s*\)', '', final_text)
RECURSIVE RemoveArtifacts(_)
RemoveArtifacts(s) ==
    IF s = <<>> THEN <<>>
    ELSE IF ArtifactLen(s) > 0
    THEN RemoveArtifacts(SubSeq(s, ArtifactLen(s) + 1, Len(s)))
    ELSE <<Head(s)>> \o RemoveArtifacts(Tail(s))

\* line 286: one line of the pattern, ^[ \t]*1\..*
IsPlaceholder(line) == startswith(DropLeading(line, {" ", "\t"}), <<"1", ".">>)

\* line 281: re.sub(r'^\s*1\.\s*', '', line)
TextContent(line) ==
    IF startswith(lstrip(line), <<"1", ".">>)
    THEN lstrip(SubSeq(lstrip(line), 3, Len(lstrip(line))))
    ELSE line

\* line 276: the indentation the renumbered lines are given
RunIndent(first_line) == SubSeq(first_line, 1, CountLeading(first_line, WhiteSpace))

\* lines 272-284: renumber_list on the matched text
renumber_list(list_block) ==
    LET ls == split(strip(list_block), "\n")
        indent == RunIndent(ls[1])
    IN  join([k \in 1..Len(ls) |->
                 indent \o NatToStr(k) \o <<".", " ">> \o TextContent(ls[k])], <<"\n">>)

\* the last line of the run of pattern lines that starts at line k
RECURSIVE RunEnd(_, _)
RunEnd(ls, k) ==
    IF k < Len(ls) /\ IsPlaceholder(ls[k + 1]) THEN RunEnd(ls, k + 1) ELSE k

\* lines 286-287: list_pattern.sub(renumber_list, final_text).  A match is a
\* maximal run of pattern lines, each with the line break that ends it.
RECURSIVE RenumberFrom(_, _)
RenumberFrom(ls, k) ==
    IF k > Len(ls) THEN <<>>
    ELSE IF IsPlaceholder(ls[k])
    THEN LET b == RunEnd(ls, k)
             list_block == join(SubSeq(ls, k, b), <<"\n">>)
                               \o (IF b < Len(ls) THEN <<"\n">> ELSE <<>>)
         IN  renumber_list(list_block) \o RenumberFrom(ls, b + 1)
    ELSE ls[k] \o (IF k < Len(ls) THEN <<"\n">> ELSE <<>>) \o RenumberFrom(ls, k + 1)

RenumberLists(text) == RenumberFrom(split(text, "\n"), 1)

----------------------------------------------------------------------------
(* The parsed document (line 90) and the parse-tree library's operations.   *)
(* doc is the sequence of the document's nodes in document order:          *)
(*   heading  a section heading of a level with the raw title between      *)
(*            the = signs; its section runs to the next heading of the     *)
(*            same or a higher rank                                        *)
(*   template a template with its name and arguments; nested says it lies  *)
(*            inside an argument of the nearest template before it that    *)
(*            is not nested                                                *)
(*   table    a table with its grid of cells                               *)
(*   text     a line of text                                               *)

Heading(level, title) ==
    [kind |-> "heading", level |-> level, title |-> title, name |-> <<>>,
     arguments |-> <<>>, nested |-> FALSE, data |-> <<>>, text |-> <<>>]
Template(name, arguments, nested) ==
    [kind |-> "template", level |-> 0, title |-> <<>>, name |-> name,
     arguments |-> arguments, nested |-> nested, data |-> <<>>, text |-> <<>>]
Table(data) ==
    [kind |-> "table", level |-> 0, title |-> <<>>, name |-> <<>>,
     arguments |-> <<>>, nested |-> FALSE, data |-> data, text |-> <<>>]
Text(text) ==
    [kind |-> "text", level |-> 0, title |-> <<>>, name |-> <<>>,
     arguments |-> <<>>, nested |-> FALSE, data |-> <<>>, text |-> text]

Positional(value) == [positional |-> TRUE, name |-> <<>>, value |-> value]
Named(name, value) == [positional |-> FALSE, name |-> name, value |-> value]

\* the last node of the section of the heading at h
SectionEnd(d, h) ==
    LET later == {k \in (h + 1)..Len(d) :
                     d[k].kind = "heading" /\ d[k].level <= d[h].level}
    IN  IF later = {} THEN Len(d)
        ELSE (CHOOSE k \in later : \A j \in later : k <= j) - 1

\* the nodes of a section: the heading, its content and its subsections
SectionSpan(d, h) == h..SectionEnd(d, h)

\* the templates nested in the arguments of the template at t
NestedIn(d, t) ==
    {k \in (t + 1)..Len(d) : \A j \in (t + 1)..k : d[j].kind = "template" /\ d[j].nested}

\* the nodes whose span lies in the span of node n, n left out
Inside(d, n) ==
    IF d[n].kind = "heading" THEN SectionSpan(d, n) \ {n}
    ELSE IF d[n].kind = "template" /\ ~d[n].nested THEN NestedIn(d, n)
    ELSE {}

\* the indices of set in increasing order
RECURSIVE Ordered(_)
Ordered(set) ==
    IF set = {} THEN <<>>
    ELSE LET m == CHOOSE k \in set : \A j \in set : k <= j
         IN  <<m>> \o Ordered(set \ {m})

\* parsed.sections: the lead section (0, no title) and one section per live heading
Sections(d, dd) ==
    <<0>> \o Ordered({k \in 1..Len(d) : d[k].kind = "heading" /\ k \notin dd})

\* parsed.templates, parsed.tables: the live nodes of the kind, outer before inner
NodesOfKind(d, dd, kind) == Ordered({k \in 1..Len(d) : d[k].kind = kind /\ k \notin dd})

\* Argument.name: a positional argument's name is its position, as a string
ArgName(arguments, k) ==
    IF arguments[k].positional
    THEN NatToStr(Cardinality({j \in 1..k : arguments[j].positional}))
    ELSE arguments[k].name

\* template.arguments as the code reads them: name and value
Arguments(node) ==
    [k \in 1..Len(node.arguments) |->
        [name |-> ArgName(node.arguments, k), value |-> node.arguments[k].value]]

\* wtp.parse(s).plain_text() on the markup of the model's values: the bold and
\* italic quote marks (two or more apostrophes) are dropped
RECURSIVE plain_text(_)
plain_text(s) ==
    LET k == CountLeading(s, {"'"})
    IN  IF s = <<>> THEN <<>>
        ELSE IF k >= 2 THEN plain_text(SubSeq(s, k + 1, Len(s)))
        ELSE <<Head(s)>> \o plain_text(Tail(s))

----------------------------------------------------------------------------
(* Pass 2: section removal (lines 95-104) *)

\* line 95
sections_to_remove ==
    { <<"r", "e", "f", "e", "r", "e", "n", "c", "e", "s">>, <<"s", "e", "e", " ", "a", "l", "s", "o">>, <<"n", "o", "t", "e", "s">>, <<"a", "p", "p", "e", "n", "d", "i", "x">>, <<"g", "a", "l", "l", "e", "r", "y">>,
      <<"e", "x", "t", "e", "r", "n", "a", "l", " ", "l", "i", "n", "k", "s">>, <<"c", "o", "n", "n", "e", "c", "t", "i", "o", "n", "s">>, <<"f", "u", "r", "t", "h", "e", "r", " ", "r", "e", "a", "d", "i", "n", "g">>, <<"i", "n", "d", "e", "x">> }

\* line 101: section.title and section.title.strip().lower() in sections_to_remove
TitleIsRemoved(title) == title # <<>> /\ lower(strip(title)) \in sections_to_remove

\* line 102 deleting a section up to the next heading of any rank
DeleteToNextHeading(d, dd, s) ==
    dd \cup {n \in s..Len(d) : \A k \in (s + 1)..n : d[k].kind # "heading"}

\* line 102: del section[:] kills the section's whole span
DeleteSection(d, dd, s) == dd \cup SectionSpan(d, s)

\* lines 100-104: the loop body for the section s of the snapshot
SectionBody(d, dd, s) ==
    IF s = 0 \/ s \in dd THEN dd
    ELSE IF TitleIsRemoved(d[s].title) THEN DeleteSection(d, dd, s)
    ELSE dd

----------------------------------------------------------------------------
(* Pass 3: the template policy (lines 96, 106-130).  A policy result is the *)
(* string the template is set to, or Delete for del template[:].           *)

Delete == [op |-> "delete", string |-> <<>>]
SetString(s) == [op |-> "string", string |-> s]

\* line 96
templates_to_remove ==
    { <<"n", "a", "v", "b", "o", "x">>, <<"s", "t", "u", "b">>, <<"c", "l", "e", "a", "n", "u", "p">>, <<"c", "i", "t", "a", "t", "i", "o", "n", " ", "n", "e", "e", "d", "e", "d">>, <<"c", "l", "a", "r", "i", "f", "y">>, <<"f", "a", "c", "t">>,
      <<"u", "p", "d", "a", "t", "e">>, <<"w", "i", "p">>, <<"r", "e", "f", "s">>, <<"s", "e", "e", " ", "a", "l", "s", "o">>, <<"m", "a", "i", "n">>, <<"d", "e", "t", "a", "i", "l", "s">> }

\* line 111: any(infobox_name in template_name for ...)
IsInfoboxName(template_name) ==
    \E infobox_name \in {<<"i", "n", "f", "o", "b", "o", "x">>, <<"s", "i", "d", "e", "b", "a", "r">>, <<"c", "r", "e", "a", "t", "u", "r", "e">>} :
        contains(template_name, infobox_name)

\* line 112: the condition of the comprehension
InfoboxKeeps(arg) ==
    /\ arg.name # <<>>
    /\ arg.value # <<>>
    /\ strip(plain_text(strip(arg.value))) # <<>>

\* line 112: one bullet line
InfoboxLine(arg) ==
    <<"-", " ", "*", "*">> \o strip(arg.name) \o <<":", "*", "*", " ">> \o strip(plain_text(strip(arg.value)))

\* lines 112-113
InfoboxString(arguments) ==
    LET kept == SelectSeq(arguments, InfoboxKeeps)
    IN  join([k \in 1..Len(kept) |-> InfoboxLine(kept[k])], <<"\n">>)

\* line 123: not arg.name.strip()
IsUnnamed(arg) == strip(arg.name) = <<>>

\* line 123: next((arg.value.strip() for arg in ... if not arg.name.strip()), "")
QuoteText(arguments) ==
    LET unnamed == SelectSeq(arguments, IsUnnamed)
    IN  IF unnamed = <<>> THEN <<>> ELSE strip(unnamed[1].value)

\* line 124
QuoteString(arguments) ==
    IF QuoteText(arguments) # <<>>
    THEN <<">", " ">> \o plain_text(QuoteText(arguments))
    ELSE <<>>

\* lines 109-126: the branch taken for a template
TemplatePolicy(node) ==
    LET template_name == lower(strip(node.name))
        arguments == Arguments(node)
    IN  IF IsInfoboxName(template_name) THEN SetString(InfoboxString(arguments))
        ELSE IF template_name \in templates_to_remove THEN Delete
        ELSE IF template_name = <<"f", "r", "a", "c">> /\ Len(arguments) >= 2
        THEN SetString(strip(arguments[1].value) \o <<"/">> \o strip(arguments[2].value))
        ELSE IF template_name = <<"p", "r", "o", "n", "o", "u", "n", "c", "e">> /\ arguments # <<>>
        THEN SetString(strip(arguments[1].value))
        ELSE IF template_name = <<"s", "i", "n", "g", "p", "l">> THEN SetString(<<>>)
        ELSE IF template_name \in {<<"q", "u", "o", "t", "e">>, <<"c", "q", "u", "o", "t", "e">>} /\ arguments # <<>>
        THEN SetString(QuoteString(arguments))
        ELSE Delete

----------------------------------------------------------------------------
(* Pass 4: table conversion (lines 132-164) *)

\* lines 141, 151: wtp.parse(str(cell)).plain_text().replace('\n', ' ').strip()
CleanCell(cell) == strip(replace(plain_text(cell), "\n", <<" ">>))
CleanRow(row) == [k \in 1..Len(row) |-> CleanCell(row[k])]

\* lines 147, 148, 153: "| " + " | ".join(cells) + " |"
TableLine(cells) == <<"|", " ">> \o join(cells, <<" ", "|", " ">>) \o <<" ", "|">>

\* line 152 without the comparison of the cell counts
RowFitsAlways(cleaned_row, header) == TRUE

\* line 152: the rows written under the header
RowFits(cleaned_row, header) == Len(cleaned_row) = Len(header)

\* lines 150-153: the data rows appended to markdown_table
DataLines(table_data, header) ==
    LET Fits(row) == RowFits(CleanRow(row), header)
        rows == SelectSeq(Tail(table_data), Fits)
    IN  [k \in 1..Len(rows) |-> TableLine(CleanRow(rows[k]))]

\* lines 135-158: the result for a table whose grid was read
TablePolicy(table_data) ==
    IF table_data = <<>> \/ table_data[1] = <<>> THEN Delete
    ELSE LET header == CleanRow(table_data[1])
             markdown_table ==
                 <<TableLine(header),
                   TableLine([k \in 1..Len(header) |-> <<"-", "-", "-">>])>>
                     \o DataLines(table_data, header)
         IN  IF \A k \in 1..Len(header) : header[k] = <<>> THEN Delete
             ELSE IF Len(markdown_table) > 2
             THEN SetString(join(markdown_table, <<"\n">>))
             ELSE Delete

----------------------------------------------------------------------------
(* Line 167: parsed.plain_text() of the edited document *)

\* what a live node contributes to the text
RenderNode(d, rp, n) ==
    IF d[n].kind = "heading"
    THEN Repeat(<<"=">>, d[n].level) \o d[n].title \o Repeat(<<"=">>, d[n].level)
    ELSE IF d[n].kind = "text" THEN d[n].text
    ELSE IF rp[n] # NoValue THEN rp[n]
    ELSE IF d[n].kind = "table" THEN <<"{", "|", " ", "|", "}">>
    ELSE <<>>

RenderDocument(d, dd, rp) ==
    LET live == Ordered({n \in 1..Len(d) : n \notin dd /\ RenderNode(d, rp, n) # <<>>})
    IN  plain_text(join([k \in 1..Len(live) |-> RenderNode(d, rp, live[k])], <<"\n">>))

----------------------------------------------------------------------------
(* The Tree Editor (passes 2-4) and the rendering as a state machine *)

\* the variables of passes 5-7 before line 168 has run
LineIdle ==
    /\ lines = <<>> /\ i = 0 /\ transformed_lines = <<>>
    /\ final_text = NoValue /\ pass = 1 /\ first_output = NoValue

LineVars == <<lines, i, transformed_lines, final_text, pass, first_output>>

\* the exceptions a library call may raise while one template or table is read
\* or rendered, and while the fallback deletion runs; Exception stands for any
\* class the except clauses do not name
Raisable == {"ValueError", "Exception"}
DeletionRaisable == {"ValueError", "IndexError", "DeadIndexError", "Exception"}

\* line 127 naming DeadIndexError alone
SkipsOnlyDead(exc) == exc = "DeadIndexError"

\* line 127: except (DeadIndexError, ValueError): continue
SkipsTemplate(exc) == exc \in {"DeadIndexError", "ValueError"}

\* lines 130, 163: except (ValueError, IndexError, DeadIndexError): pass
DeletionFailureIgnored(delexc) == delexc \in {"ValueError", "IndexError", "DeadIndexError"}

\* what a node's span is after the policy result res was applied to node n
ApplyDead(d, dd, n, res) ==
    IF res.op = "delete" THEN dd \cup {n} \cup Inside(d, n) ELSE dd \cup Inside(d, n)
ApplyRepl(rp, n, res) ==
    IF res.op = "delete" THEN rp ELSE [rp EXCEPT ![n] = res.string]

\* lines 128-130, 159-164: the fallback deletion of node n, which raises delexc
\* ("none": it succeeds); a dead node's deletion raises DeadIndexError
FallbackRaises(dd, n, delexc) == IF n \in dd THEN "DeadIndexError" ELSE delexc

\* what the loop body did for a node: the exception raised ("none": none), the
\* fallback deletion ("unattempted", "succeeded", or the exception it raised)
\* and what became of the node
Record(raised, deletion, action) ==
    [raised |-> raised, deletion |-> deletion, action |-> action]

\* a node the loops have not reached
Unvisited == Record("none", "unattempted", "unvisited")

DeletionResult(dd, n, delexc) ==
    IF FallbackRaises(dd, n, delexc) = "none" THEN "succeeded"
    ELSE FallbackRaises(dd, n, delexc)

\* the except clause of the fallback deletion: the loop goes on, or the
\* exception leaves clean_wikitext
AfterFallback(dd, n, delexc) ==
    LET r == FallbackRaises(dd, n, delexc)
    IN  IF r = "none" THEN "deleted"
        ELSE IF DeletionFailureIgnored(r) THEN "untouched"
        ELSE "escaped"

\* line 99: for section in parsed.sections[:]
StartSections ==
    /\ pc = "parsed"
    /\ queue' = Sections(doc, dead)
    /\ pc' = "sections"
    /\ UNCHANGED <<wikitext, steps, result, doc, dead, repl, visited, outcome,
                   raw_text, LineVars>>

\* lines 100-104: one iteration of the section loop
SectionStep ==
    /\ pc = "sections"
    /\ queue # <<>>
    /\ dead' = SectionBody(doc, dead, Head(queue))
    /\ visited' = [visited EXCEPT !.sections = Append(@, Head(queue))]
    /\ queue' = Tail(queue)
    /\ UNCHANGED <<pc, wikitext, steps, result, doc, repl, outcome, raw_text, LineVars>>

\* line 107: for template in parsed.templates[:]
StartTemplates ==
    /\ pc = "sections"
    /\ queue = <<>>
    /\ queue' = NodesOfKind(doc, dead, "template")
    /\ pc' = "templates"
    /\ UNCHANGED <<wikitext, steps, result, doc, dead, repl, visited, outcome,
                   raw_text, LineVars>>

\* lines 108-130: one iteration of the template loop.  A dead template raises
\* DeadIndexError; on a live one the library raises exc ("none": nothing).
TemplateStep ==
    /\ pc = "templates"
    /\ queue # <<>>
    /\ \E exc \in Raisable \cup {"none"}, delexc \in DeletionRaisable \cup {"none"} :
        LET t == Head(queue)
            raised == IF t \in dead THEN "DeadIndexError" ELSE exc
            res == TemplatePolicy(doc[t])
            fallback == AfterFallback(dead, t, delexc)
        IN  /\ (raised = "none" \/ SkipsTemplate(raised)) => delexc = "none"
            /\ IF raised = "none"
               THEN /\ dead' = ApplyDead(doc, dead, t, res)
                    /\ repl' = ApplyRepl(repl, t, res)
                    /\ outcome' = [outcome EXCEPT ![t] =
                           Record("none", "unattempted",
                                  IF res.op = "delete" THEN "deleted" ELSE "replaced")]
                    /\ pc' = pc
               ELSE IF SkipsTemplate(raised)
               THEN /\ outcome' = [outcome EXCEPT ![t] =
                           Record(raised, "unattempted", "untouched")]
                    /\ UNCHANGED <<dead, repl, pc>>
               ELSE /\ dead' = IF fallback = "deleted"
                               THEN ApplyDead(doc, dead, t, Delete) ELSE dead
                    /\ outcome' = [outcome EXCEPT ![t] =
                           Record(raised, DeletionResult(dead, t, delexc), fallback)]
                    /\ pc' = IF fallback = "escaped" THEN "aborted" ELSE pc
                    /\ UNCHANGED repl
    /\ visited' = [visited EXCEPT !.templates = Append(@, Head(queue))]
    /\ queue' = Tail(queue)
    /\ UNCHANGED <<wikitext, steps, result, doc, raw_text, LineVars>>

\* line 133: for table in parsed.tables[:]
StartTables ==
    /\ pc = "templates"
    /\ queue = <<>>
    /\ queue' = NodesOfKind(doc, dead, "table")
    /\ pc' = "tables"
    /\ UNCHANGED <<wikitext, steps, result, doc, dead, repl, visited, outcome,
                   raw_text, LineVars>>

\* lines 134-164: one iteration of the table loop; any exception falls back to
\* the deletion of the table
TableStep ==
    /\ pc = "tables"
    /\ queue # <<>>
    /\ \E exc \in {"Exception", "none"}, delexc \in DeletionRaisable \cup {"none"} :
        LET t == Head(queue)
            raised == IF t \in dead THEN "DeadIndexError" ELSE exc
            res == TablePolicy(doc[t].data)
            fallback == AfterFallback(dead, t, delexc)
        IN  /\ raised = "none" => delexc = "none"
            /\ IF raised = "none"
               THEN /\ dead' = ApplyDead(doc, dead, t, res)
                    /\ repl' = ApplyRepl(repl, t, res)
                    /\ outcome' = [outcome EXCEPT ![t] =
                           Record("none", "unattempted",
                                  IF res.op = "delete" THEN "deleted" ELSE "replaced")]
                    /\ pc' = pc
               ELSE /\ dead' = IF fallback = "deleted"
                               THEN ApplyDead(doc, dead, t, Delete) ELSE dead
                    /\ outcome' = [outcome EXCEPT ![t] =
                           Record(raised, DeletionResult(dead, t, delexc), fallback)]
                    /\ pc' = IF fallback = "escaped" THEN "aborted" ELSE pc
                    /\ UNCHANGED repl
    /\ visited' = [visited EXCEPT !.tables = Append(@, Head(queue))]
    /\ queue' = Tail(queue)
    /\ UNCHANGED <<wikitext, steps, result, doc, raw_text, LineVars>>

\* line 167: raw_text = parsed.plain_text()
Render ==
    /\ pc = "tables"
    /\ queue = <<>>
    /\ raw_text' = RenderDocument(doc, dead, repl)
    /\ pc' = "rendered"
    /\ UNCHANGED <<wikitext, steps, result, doc, dead, repl, queue, visited, outcome,
                   LineVars>>

----------------------------------------------------------------------------
(* The documents the model draws from *)

MaxNodes == 3
MaxArgs == 2
MaxRows == 3

\* every sequence of at most n elements of set
RECURSIVE SeqsUpTo(_, _)
SeqsUpTo(set, n) ==
    IF n = 0 THEN {<<>>}
    ELSE SeqsUpTo(set, n - 1)
         \cup {Append(s, x) : s \in {y \in SeqsUpTo(set, n - 1) : Len(y) = n - 1},
                              x \in set}

\* sections of two ranks with removed and kept titles, around a template, a
\* table and a line of text
SectionNodes ==
    { Heading(2, <<" ", "S", "e", "e", " ", "A", "l", "s", "o", " ">>), Heading(3, <<"N", "O", "T", "E", "S">>), Heading(2, <<"H", "i", "s", "t", "o", "r", "y">>),
      Heading(3, <<"P", "l", "o", "t">>), Template(<<"O", "t", "h", "e", "r">>, <<>>, FALSE),
      Table(<< <<<<"A">>>>, <<<<"1">>>> >>), Text(<<"t">>) }

TemplateNames ==
    { <<"I", "n", "f", "o", "b", "o", "x", " ", "p", "e", "r", "s", "o", "n">>, <<"S", "t", "u", "b">>, <<"f", "r", "a", "c">>, <<"P", "r", "o", "n", "o", "u", "n", "c", "e">>, <<"s", "i", "n", "g", "p", "l">>, <<" ", "Q", "u", "o", "t", "e", " ">>,
      <<"c", "q", "u", "o", "t", "e">>, <<"O", "t", "h", "e", "r">> }

ArgValues ==
    { Positional(<<"H", "i">>), Positional(<<" ">>), Positional(<<"'", "'", "q", "'", "'">>),
      Named(<<"k">>, <<"v">>), Named(<<" ">>, <<"x">>) }

Rows ==
    { <<>>, <<<<"A">>, <<"B">>>>, <<<<"1">>, <<"2">>>>, <<<<"x">>>>, <<<<>>, <<" ">>>>,
      <<<<"a", "\n", "b">>, <<"'", "'", "c", "'", "'">>>> }

Documents ==
    SeqsUpTo(SectionNodes, MaxNodes)
    \cup {<<Template(n, a, FALSE)>> : n \in TemplateNames, a \in SeqsUpTo(ArgValues, MaxArgs)}
    \cup {<<Template(n, a, FALSE), Template(<<"O", "t", "h", "e", "r">>, <<>>, TRUE)>> :
             n \in TemplateNames, a \in SeqsUpTo(ArgValues, MaxArgs)}
    \cup {<<Table(g)>> : g \in SeqsUpTo(Rows, MaxRows)}

InitTree ==
    /\ pc = "parsed"
    /\ doc \in Documents
    /\ dead = {}
    /\ repl = [n \in 1..Len(doc) |-> NoValue]
    /\ outcome = [n \in 1..Len(doc) |-> Unvisited]
    /\ queue = <<>>
    /\ visited = [p \in {"sections", "templates", "tables"} |-> <<>>]
    /\ wikitext = NoValue /\ steps = <<>> /\ result = NoValue /\ raw_text = NoValue
    /\ LineIdle

NextTree ==
    \/ StartSections \/ SectionStep \/ StartTemplates \/ TemplateStep
    \/ StartTables \/ TableStep \/ Render

SpecTree == InitTree /\ [][NextTree]_vars

----------------------------------------------------------------------------
(* The entry guard and pass 1, the Pre-normalizer (lines 78-93) *)

\* line 78 without lower()
IsRedirectCaseSensitive(w) == startswith(strip(w), <<"#", "r", "e", "d", "i", "r", "e", "c", "t">>)

\* line 78: wikitext.lower().strip().startswith('#redirect')
IsRedirect(w) == startswith(strip(lower(w)), <<"#", "r", "e", "d", "i", "r", "e", "c", "t">>)

\* line 78: not wikitext or ...
ShortCircuits(w) == w = <<>> \/ IsRedirect(w)

\* the longest prefix of s with no character of stop
RunUntil(s, stop) ==
    SubSeq(s, 1, Len(s) - Len(DropLeading(s, {s[k] : k \in 1..Len(s)} \ stop)))

\* the groups ([^}|]+) of \|([^}|]+) repeated n times at the start of s, and
\* what follows them; ok is FALSE when they do not match
RECURSIVE PipeGroups(_, _)
PipeGroups(s, n) ==
    IF n = 0 THEN [ok |-> TRUE, groups |-> <<>>, rest |-> s]
    ELSE IF s = <<>> \/ Head(s) # "|" \/ RunUntil(Tail(s), {"}", "|"}) = <<>>
    THEN [ok |-> FALSE, groups |-> <<>>, rest |-> s]
    ELSE LET g == RunUntil(Tail(s), {"}", "|"})
             more == PipeGroups(SubSeq(s, Len(g) + 2, Len(s)), n - 1)
         IN  [ok |-> more.ok, groups |-> <<g>> \o more.groups, rest |-> more.rest]

\* a match of \{\{\s*name\s*(\|([^}|]+)){n}[^}]*\}\} at the start of s, the
\* name in any letter case: its groups and its length, 0 when there is none
MatchUnit(s, name, n) ==
    LET a == lstrip(SubSeq(s, 3, Len(s)))
        b == lstrip(SubSeq(a, Len(name) + 1, Len(a)))
        pg == PipeGroups(b, n)
        tail == DropLeading(pg.rest, {pg.rest[k] : k \in 1..Len(pg.rest)} \ {"}"})
    IN  IF /\ startswith(s, <<"{", "{">>)
           /\ startswith(lower(a), name)
           /\ pg.ok
           /\ startswith(tail, <<"}", "}">>)
        THEN [len |-> Len(s) - Len(tail) + 2, groups |-> pg.groups]
        ELSE [len |-> 0, groups |-> <<>>]

\* the replacement strings of lines 85-88
UnitText(name, groups) ==
    IF name = <<"s", "i", "r", "a", "n", "g", "e">>
    THEN groups[1] \o <<NDASH>> \o groups[2]
             \o (IF Len(groups) = 3 THEN <<" ">> \o groups[3] ELSE <<>>)
    ELSE groups[1] \o (IF Len(groups) = 2 THEN <<" ">> \o groups[2] ELSE <<>>)

\* re.sub of one of the four patterns over s
RECURSIVE SubUnits(_, _, _)
SubUnits(s, name, n) ==
    IF s = <<>> THEN <<>>
    ELSE LET m == MatchUnit(s, name, n)
         IN  IF m.len > 0
             THEN UnitText(name, m.groups) \o SubUnits(SubSeq(s, m.len + 1, Len(s)), name, n)
             ELSE <<Head(s)>> \o SubUnits(Tail(s), name, n)

\* lines 85-88: the forms with more arguments first
PreNormalized(w) ==
    SubUnits(SubUnits(SubUnits(SubUnits(w, <<"s", "i", "r", "a", "n", "g", "e">>, 3), <<"s", "i", "r", "a", "n", "g", "e">>, 2), <<"s", "i">>, 2),
             <<"s", "i">>, 1)

\* line 78: the guard
EntryGuard ==
    /\ pc = "entry"
    /\ IF ShortCircuits(wikitext)
       THEN result' = <<>> /\ pc' = "returned"
       ELSE pc' = "prenormalize" /\ UNCHANGED result
    /\ UNCHANGED <<wikitext, steps, doc, dead, repl, queue, visited, outcome,
                   raw_text, LineVars>>

\* lines 85-88
PreNormalize ==
    /\ pc = "prenormalize"
    /\ wikitext' = PreNormalized(wikitext)
    /\ steps' = Append(steps, "prenormalize")
    /\ pc' = "parse"
    /\ UNCHANGED <<result, doc, dead, repl, queue, visited, outcome, raw_text, LineVars>>

\* lines 90-93: wtp.parse succeeds, or throws and the article is given up
Parse ==
    /\ pc = "parse"
    /\ steps' = Append(steps, "parse")
    /\ \E parses \in BOOLEAN :
        IF parses THEN pc' = "parsed" /\ UNCHANGED result
        ELSE result' = <<>> /\ pc' = "returned"
    /\ UNCHANGED <<wikitext, doc, dead, repl, queue, visited, outcome, raw_text,
                   LineVars>>

\* the raw markup the model draws from: a core between optional white space
MarkupCores ==
    { <<>>, <<"#", "R", "E", "D", "I", "R", "E", "C", "T", " ", "[", "[", "X", "]", "]">>, <<"#", "r", "e", "d", "i", "r", "e", "c", "t", " ", "x">>, <<"#", "R", "e", "d", "i", "r", "e", "c", "t">>, <<"#", " ", "r", "e", "d", "i", "r", "e", "c", "t">>,
      <<"a", " ", "#", "r", "e", "d", "i", "r", "e", "c", "t">>, <<"t", "e", "x", "t">>, <<"{", "{", "S", "I", "|", "5", "|", "m", "}", "}">>, <<"{", "{", "s", "i", "r", "a", "n", "g", "e", "|", "1", "|", "2", "|", "k", "m", "|", "x", "=", "y", "}", "}">>,
      <<"{", "{", " ", "s", "i", " ", "|", "3", "}", "}", " ", "x">>, <<"{", "{", "S", "I", "r", "a", "n", "g", "e", "|", "1", "|", "2", "}", "}">>, <<"{", "{", "s", "i", "|", "4", "}">> }

RawMarkup ==
    { before \o core \o after :
        before \in {<<>>, <<" ">>, <<"\n">>, <<" ", "\t">>}, core \in MarkupCores,
        after \in {<<>>, <<" ">>} }

InitGuard ==
    /\ pc = "entry"
    /\ wikitext \in RawMarkup
    /\ steps = <<>> /\ result = NoValue /\ raw_text = NoValue
    /\ doc = <<>> /\ dead = {} /\ repl = <<>> /\ outcome = <<>> /\ queue = <<>>
    /\ visited = [p \in {"sections", "templates", "tables"} |-> <<>>]
    /\ LineIdle

NextGuard == EntryGuard \/ PreNormalize \/ Parse

SpecGuard == InitGuard /\ [][NextGuard]_vars

----------------------------------------------------------------------------
(* Passes 5-7 as a state machine *)

\* the variables the entry guard and the Tree Editor own, idle in passes 5-7
TreeIdle ==
    /\ wikitext = NoValue /\ steps = <<>>
    /\ doc = <<>> /\ dead = {} /\ repl = <<>> /\ queue = <<>>
    /\ visited = [p \in {"sections", "templates", "tables"} |-> <<>>]
    /\ outcome = <<>>

TreeVars == <<wikitext, steps, doc, dead, repl, queue, visited, outcome>>

\* lines 167-171: raw_text.split('\n'), i = 0, transformed_lines = []
SplitLines ==
    /\ pc = "split"
    /\ lines' = split(raw_text, "\n")
    /\ i' = 0
    /\ transformed_lines' = <<>>
    /\ pc' = "transform"
    /\ UNCHANGED <<TreeVars, raw_text, final_text, result, pass, first_output>>

\* lines 172-249: one iteration of the while loop
TransformLine ==
    /\ pc = "transform"
    /\ i < Len(lines)
    /\ transformed_lines' = TransformStep(transformed_lines, lines, i)
    /\ i' = i + 1
    /\ UNCHANGED <<TreeVars, pc, raw_text, lines, final_text, result, pass, first_output>>

\* lines 251-265: the loop has ended; assemble the blocks
Assemble ==
    /\ pc = "transform"
    /\ i >= Len(lines)
    /\ final_text' = AssembleText(transformed_lines)
    /\ pc' = "finish"
    /\ UNCHANGED <<TreeVars, raw_text, lines, i, transformed_lines, result, pass,
                   first_output>>

\* lines 268-269: the two punctuation fixups
Fixups ==
    /\ pc = "finish"
    /\ final_text' = RemoveArtifacts(FixSpacing(final_text))
    /\ pc' = "renumber"
    /\ UNCHANGED <<TreeVars, raw_text, lines, i, transformed_lines, result, pass,
                   first_output>>

\* lines 286-289: renumber the ordered lists and return
Renumber ==
    /\ pc = "renumber"
    /\ final_text' = RenumberLists(final_text)
    /\ result' = final_text'
    /\ pc' = "done"
    /\ UNCHANGED <<TreeVars, raw_text, lines, i, transformed_lines, pass, first_output>>

\* The returned text is given to passes 5-7 again as raw_text (the tree stage
\* skipped).
FeedBack ==
    /\ pc = "done"
    /\ pass = 1
    /\ first_output' = result
    /\ raw_text' = result
    /\ pass' = 2
    /\ pc' = "split"
    /\ result' = NoValue
    /\ UNCHANGED <<TreeVars, lines, i, transformed_lines, final_text>>

\* the rendered lines the model draws raw_text from
LineCatalog ==
    { <<>>, <<"*", " ", "a">>, <<"#", " ", "a">>, <<"#", "#", " ", "b">>, <<"*", "#", " ", "c">>, <<"=", "=", " ", "H", " ", "=", "=">>, <<"t">>, <<"l", ":">>, <<";", " ", "k", ":", " ", "v">>,
      <<":", " ", "x">> \o <<BULLET>> \o <<"y">>, <<"C", "a", "t", "e", "g", "o", "r", "y", ":", "z">>, <<" ", ".", "e">> }

MaxLines == 3

InitLines ==
    /\ pc = "split"
    \* every text of at most MaxLines lines of the catalog
    /\ raw_text \in {join(ls, <<"\n">>) : ls \in SeqsUpTo(LineCatalog, MaxLines) \ {<<>>}}
    /\ lines = <<>> /\ i = 0 /\ transformed_lines = <<>>
    /\ final_text = NoValue /\ result = NoValue
    /\ pass = 1 /\ first_output = NoValue
    /\ TreeIdle

NextLines == SplitLines \/ TransformLine \/ Assemble \/ Fixups \/ Renumber \/ FeedBack

SpecLines == InitLines /\ [][NextLines]_vars

----------------------------------------------------------------------------
(* The whole model *)

Init == InitGuard \/ InitTree \/ InitLines
Next == NextGuard \/ NextTree \/ NextLines
Spec == Init /\ [][Next]_vars

----------------------------------------------------------------------------
(* Properties of passes 5-7, checked under SpecLines *)

\* the text the renumbering is applied to (final_text after line 269)
BeforeRenumber == RemoveArtifacts(FixSpacing(AssembleText(transformed_lines)))

\* a line's leading indentation
Indent(line) == SubSeq(line, 1, CountLeading(line, {" ", "\t"}))

\* the position of line j in its maximal run of consecutive placeholder lines
\* of one indentation
RECURSIVE RunPosition(_, _)
RunPosition(ls, j) ==
    IF j > 1 /\ IsPlaceholder(ls[j - 1]) /\ Indent(ls[j - 1]) = Indent(ls[j])
    THEN 1 + RunPosition(ls, j - 1)
    ELSE 1

\* C1: after the Finisher, the k-th line of every maximal run of consecutive
\* ordered-list placeholder lines of one indentation is numbered k and keeps the
\* indentation it had before the renumbering.  Stated for the texts whose lines
\* the renumbering left in place, line for line.
C1_RunsRenumberedInPlace ==
    (pc = "done" /\ pass = 1) =>
        LET before == split(BeforeRenumber, "\n")
            after == split(final_text, "\n")
        IN  Len(after) = Len(before) =>
                \A j \in 1..Len(before) :
                    IsPlaceholder(before[j]) =>
                        /\ Indent(after[j]) = Indent(before[j])
                        /\ startswith(DropLeading(after[j], {" ", "\t"}),
                                      NatToStr(RunPosition(before, j)) \o <<".", " ">>)

\* a line whose marker run is a single *
IsStarBullet(line) == ~IsNoise(line) /\ Markers(strip(line)) = <<"*">>

\* C2: when the rendered lines are two or more consecutive single-* bullet
\* lines, every one of them, the last included, is emitted as the list item
\* "- <text>" and none as a "**<text>:**" subheading.
C2_BulletRunIsList ==
    ( /\ pc = "transform" /\ pass = 1 /\ i = Len(lines)
      /\ Len(lines) >= 2
      /\ \A j \in 1..Len(lines) : IsStarBullet(lines[j]) )
    => /\ Len(transformed_lines) = Len(lines)
       /\ \A j \in 1..Len(lines) :
              /\ startswith(transformed_lines[j], <<"-", " ">>)
              /\ ~startswith(transformed_lines[j], <<"*", "*">>)

\* a line of text: no noise, no list, definition or heading marker, no closing
\* punctuation and no ordered-list placeholder at its start
IsPlainLine(line) ==
    /\ ~IsNoise(line)
    /\ ~StartsWithMarker(strip(line))
    /\ Head(strip(line)) \notin ClosePunct
    /\ ~IsPlaceholder(strip(line))

Fixed(s) == RemoveArtifacts(FixSpacing(s))

LineKinds(text) ==
    LET ls == split(text, "\n")
    IN  [j \in 1..Len(ls) |-> strip(ls[j]) = <<>>]

\* C6: given to passes 5-7 again, an output of passes 5-7 comes back with the
\* block structure it had: the same blocks, the same number of lines in each,
\* the same blank lines between them.
C6_SecondPassKeepsBlocks ==
    (pc = "done" /\ pass = 2) => LineKinds(result) = LineKinds(first_output)

\* the number of lines of each maximal run of non-blank lines of tl
RECURSIVE RunLengths(_, _)
RunLengths(tl, current) ==
    IF tl = <<>> THEN (IF current > 0 THEN <<current>> ELSE <<>>)
    ELSE IF strip(Head(tl)) # <<>> THEN RunLengths(Tail(tl), current + 1)
    ELSE (IF current > 0 THEN <<current>> ELSE <<>>) \o RunLengths(Tail(tl), 0)

\* the line kinds of a text of blocks of these lengths, one blank line between
\* two blocks
KindsOfBlocks(lengths) ==
    IF lengths = <<>> THEN <<TRUE>>
    ELSE join([k \in 1..Len(lengths) |-> [j \in 1..lengths[k] |-> FALSE]], <<TRUE>>)

\* C9: in the returned text the blocks are the maximal runs of non-blank
\* transformed lines, one line break between the lines of a block and one blank
\* line between two blocks; the fixups and the renumbering that follow the join
\* remove and add no line break.
C9_BlocksSurviveFinisher ==
    (pc = "done" /\ pass = 1) =>
        LineKinds(result) = KindsOfBlocks(RunLengths(transformed_lines, 0))

----------------------------------------------------------------------------
(* Properties of the Tree Editor, checked under SpecTree *)

\* the nodes of kind whose loop body has run
Processed(kind) ==
    {n \in 1..Len(doc) : doc[n].kind = kind /\ outcome[n] # Unvisited}

\* the data rows of a grid with as many cells as its header row
FittingRows(data) == {r \in 2..Len(data) : Len(data[r]) = Len(data[1])}

\* the r-th smallest element of a set of numbers
RECURSIVE Nth(_, _)
Nth(set, r) ==
    LET m == CHOOSE k \in set : \A j \in set : k <= j
    IN  IF r = 1 THEN m ELSE Nth(set \ {m}, r - 1)

\* a table that must not be emitted: no row, no header cell, a header that
\* renders empty, or no data row of the header's cell count
HasNoTable(data) ==
    \/ data = <<>>
    \/ data[1] = <<>>
    \/ \A k \in 1..Len(data[1]) : CleanCell(data[1][k]) = <<>>
    \/ FittingRows(data) = {}

\* the number of cells of a line of a Markdown table
CellCount(line) ==
    Cardinality({k \in 1..(Len(line) - 2) : SubSeq(line, k, k + 2) = <<" ", "|", " ">>}) + 1

\* C4: of a table the Tree Editor has processed, the emitted Markdown table
\* holds, under the header and the separator, exactly the data rows that have
\* the header's cell count, in their order, and no line of the rendered text is
\* a row of another cell count; a table with no rows, an all-empty rendered
\* header or no such data row is deleted and has no Markdown table.
C4_OnlyFittingRowsEmitted ==
    \A t \in Processed("table") :
        outcome[t].raised = "none" =>
            LET data == doc[t].data
            IN  IF HasNoTable(data)
                THEN t \in dead /\ repl[t] = NoValue
                ELSE /\ t \notin dead
                     /\ repl[t] # NoValue
                     /\ LET out == split(repl[t], "\n")
                        IN  /\ Len(out) = 2 + Cardinality(FittingRows(data))
                            /\ \A k \in 1..Len(out) : CellCount(out[k]) = Len(data[1])
                            /\ \A k \in 3..Len(out) :
                                   out[k] = TableLine(CleanRow(
                                                data[Nth(FittingRows(data), k - 2)]))
                     /\ pc = "rendered" =>
                            \A r \in (2..Len(data)) \ FittingRows(data) :
                                \A k \in 1..Len(split(raw_text, "\n")) :
                                    split(raw_text, "\n")[k]
                                        # TableLine(CleanRow(data[r]))

\* C4 witness: the table [[A, B], [1, 2], [x]] was rendered as a header, a
\* separator and the one row 1 | 2
C4_Witness ==
    /\ pc = "rendered"
    /\ doc = <<Table(<< <<<<"A">>, <<"B">>>>, <<<<"1">>, <<"2">>>>, <<<<"x">>>> >>)>>
    /\ raw_text = <<"|", " ", "A", " ", "|", " ", "B", " ", "|", "\n", "|", " ", "-", "-", "-", " ", "|", " ", "-", "-", "-", " ", "|", "\n", "|", " ", "1", " ", "|", " ", "2", " ", "|">>

\* the headings whose trimmed, lowercased title is in the removal set
RemovedHeadings ==
    {h \in 1..Len(doc) :
        doc[h].kind = "heading" /\ lower(strip(doc[h].title)) \in sections_to_remove}

\* the nodes of the subtree of the section of heading h: all that follows h up
\* to the next heading that is not of a lower rank
Subtree(h) ==
    {n \in h..Len(doc) :
        \A k \in (h + 1)..n : ~(doc[k].kind = "heading" /\ doc[k].level <= doc[h].level)}

InRemovedSection(n) == \E h \in RemovedHeadings : n \in Subtree(h)

\* the elements of a sequence
Range(s) == {s[k] : k \in 1..Len(s)}

\* C5: once the section pass has ended, every section with a title of the
\* removal set is dead with its whole subtree, the template pass and the table
\* pass visit no node of it, and the rendered text holds neither its title nor
\* a line of text of it.
C5_RemovedSectionsAbsent ==
    (pc \in {"templates", "tables", "rendered", "aborted"}) =>
        /\ \A n \in 1..Len(doc) :
               InRemovedSection(n) =>
                   /\ n \in dead
                   /\ n \notin Range(visited.templates)
                   /\ n \notin Range(visited.tables)
                   /\ outcome[n] = Unvisited
        /\ pc = "rendered" =>
               /\ \A h \in RemovedHeadings :
                      ~contains(lower(raw_text), lower(strip(doc[h].title)))
               /\ Cardinality({k \in 1..Len(split(raw_text, "\n")) :
                                  split(raw_text, "\n")[k] = <<"t">>})
                      = Cardinality({n \in 1..Len(doc) :
                                        doc[n].kind = "text" /\ ~InRemovedSection(n)})

\* C5 witness: a removed section held a subsection with a kept title and a
\* template under it, and the document was rendered
C5_Witness ==
    /\ pc = "rendered"
    /\ \E h \in RemovedHeadings, s \in 1..Len(doc), n \in 1..Len(doc) :
           /\ h < s /\ s < n
           /\ doc[s].kind = "heading" /\ s \notin RemovedHeadings /\ s \in Subtree(h)
           /\ doc[n].kind \in {"template", "table"} /\ n \in Subtree(s)

\* C7 as stated: whatever exception one template raises, a deletion of the
\* template is attempted, the template is left untouched only when that
\* deletion failed, and the transformation is never aborted.
C7_EveryExceptionFallsBackToDelete ==
    /\ pc # "aborted"
    /\ \A t \in Processed("template") :
           outcome[t].raised # "none" =>
               /\ outcome[t].deletion # "unattempted"
               /\ outcome[t].action = "untouched" =>
                      outcome[t].deletion \notin {"unattempted", "succeeded"}

\* C7 (amended): an exception raised while one template is processed is
\* caught.  DeadIndexError and ValueError skip the template as it is, with no
\* deletion attempted.  Any other exception makes the editor attempt the
\* deletion: it deletes the template, or it fails with ValueError, IndexError or
\* DeadIndexError and the template is left untouched.  In all these cases the
\* loop goes on: when the pass has ended every template outside the removed
\* sections has been processed.  Only a fallback deletion that raises yet
\* another exception leaves clean_wikitext.
C7_ExceptionsByClass ==
    /\ \A t \in Processed("template") :
           LET o == outcome[t]
           IN  /\ o.raised \in {"DeadIndexError", "ValueError"} =>
                      /\ o.deletion = "unattempted" /\ o.action = "untouched"
                      /\ repl[t] = NoValue
                      /\ o.raised = "ValueError" => t \notin dead
               /\ o.raised \notin {"none", "DeadIndexError", "ValueError"} =>
                      /\ o.deletion # "unattempted"
                      /\ o.deletion = "succeeded" => (t \in dead /\ o.action = "deleted")
                      /\ o.deletion \in {"ValueError", "IndexError", "DeadIndexError"} =>
                             (o.action = "untouched" /\ t \notin dead /\ repl[t] = NoValue)
                      /\ o.action = "untouched" => o.deletion # "succeeded"
    /\ pc = "aborted" =>
           \E n \in 1..Len(doc) :
               /\ outcome[n] # Unvisited
               /\ outcome[n].deletion \notin {"unattempted", "succeeded", "ValueError",
                                              "IndexError", "DeadIndexError"}
    /\ pc \in {"tables", "rendered"} =>
           \A n \in 1..Len(doc) :
               (doc[n].kind = "template" /\ ~InRemovedSection(n)) => outcome[n] # Unvisited

\* C7 witness: a template raised an exception of another class, its fallback
\* deletion failed and left it untouched, a later template was deleted on a
\* ValueError-free run of the loop body, and the pass ended
C7_Witness ==
    /\ pc = "rendered"
    /\ \E a \in Processed("template"), b \in Processed("template"),
          c \in Processed("template") :
           /\ a < b /\ b < c
           /\ outcome[a].raised = "Exception" /\ outcome[a].action = "untouched"
           /\ outcome[b].raised = "ValueError"
           /\ outcome[c].raised = "none" /\ outcome[c].action = "deleted"

\* a template named quote or cquote, trimmed and in any letter case
IsQuote(node) ==
    node.kind = "template" /\ lower(strip(node.name)) \in {<<"q", "u", "o", "t", "e">>, <<"c", "q", "u", "o", "t", "e">>}

\* the values of the positional arguments of a template, in order
PositionalValues(node) ==
    LET pos == SelectSeq(node.arguments, LAMBDA a : a.positional)
    IN  [k \in 1..Len(pos) |-> pos[k].value]

\* C10: a quote or cquote template with a positional argument is replaced with
\* "> " and the plain-text rendering of the first positional argument, whatever
\* named arguments precede it; one with no positional argument is replaced with
\* empty content.
C10_QuoteKeepsFirstPositional ==
    \A t \in Processed("template") :
        (IsQuote(doc[t]) /\ outcome[t].raised = "none") =>
            IF PositionalValues(doc[t]) # <<>>
            THEN repl[t] \in { <<">", " ">> \o plain_text(PositionalValues(doc[t])[1]),
                               <<">", " ">> \o plain_text(strip(PositionalValues(doc[t])[1])) }
            ELSE t \in dead \/ repl[t] = <<>>

----------------------------------------------------------------------------
(* Properties of the entry guard, checked under SpecGuard *)

\* markup that is empty or begins with #redirect once trimmed
TrimmedEmptyOrRedirect(w) ==
    strip(w) = <<>> \/ startswith(lower(strip(w)), <<"#", "r", "e", "d", "i", "r", "e", "c", "t">>)

\* C8 as stated: whenever the raw markup is, after trimming, empty or begins
\* with #redirect in any letter case, clean_wikitext returns the empty string
\* and performs no pre-normalization, parsing or tree editing.
C8_TrimmedEmptyShortCircuits ==
    /\ pc = "prenormalize" => ~TrimmedEmptyOrRedirect(wikitext)
    /\ (pc = "returned" /\ steps = <<>>) => result = <<>>

\* C8 (amended): clean_wikitext returns the empty string, with no
\* pre-normalization, parsing or tree editing performed, whenever the raw markup
\* is the empty string or begins, after trimming, with #redirect in any letter
\* case, and only then; markup of white space only is not short-circuited.
C8_EmptyOrRedirectShortCircuits ==
    /\ pc = "prenormalize" =>
           (wikitext # <<>> /\ ~startswith(lower(strip(wikitext)), <<"#", "r", "e", "d", "i", "r", "e", "c", "t">>))
    /\ (pc = "returned" /\ steps = <<>>) =>
           /\ result = <<>>
           /\ wikitext = <<>> \/ startswith(lower(strip(wikitext)), <<"#", "r", "e", "d", "i", "r", "e", "c", "t">>)
    /\ steps # <<>> => pc \in {"parse", "parsed", "returned"}

\* C8 witness: a redirect in capitals behind leading white space was returned
\* as the empty string with nothing else performed
C8_Witness ==
    /\ pc = "returned" /\ steps = <<>> /\ result = <<>>
    /\ wikitext = <<" ", "\t", "#", "R", "E", "D", "I", "R", "E", "C", "T", " ", "[", "[", "X", "]", "]">>

----------------------------------------------------------------------------
(* Properties of one step of the Line Transformer, checked under SpecLines *)

\* the characters that keep a line from being merged
NoMergeStart == {"*", "#", ";", ":", "="}

\* C11: in the Line Transformer, a noise line appends one blank placeholder and
\* is never merged; a non-noise line is appended, after one space, to the last
\* emitted line, with no new line emitted, exactly when that last line ends
\* with ":" and the trimmed line starts with none of * # ; : =; otherwise the
\* lines emitted so far, the last one included, are left unchanged.
C11_MergeAfterColonOnly ==
    [][ (pc = "transform" /\ i < Len(lines) /\ i' = i + 1) =>
        LET line == lines[i + 1]
            trimmed == strip(line)
            before == transformed_lines
            after == transformed_lines'
            n == Len(before)
        IN  IF IsNoise(line)
            THEN after = before \o << <<>> >>
            ELSE IF /\ n > 0
                    /\ before[n] # <<>>
                    /\ before[n][Len(before[n])] = ":"
                    /\ trimmed[1] \notin NoMergeStart
            THEN /\ Len(after) = n
                 /\ SubSeq(after, 1, n - 1) = SubSeq(before, 1, n - 1)
                 /\ after[n] = before[n] \o <<" ">> \o trimmed
            ELSE /\ Len(after) >= n
                 /\ SubSeq(after, 1, n) = before
      ]_vars

\* C11 witness: "t" after "l:" was appended to it and no second line emitted,
\* while "# a" after "l:" was emitted as a line of its own
C11_Witness ==
    /\ pc = "transform" /\ pass = 1
    /\ lines = <<<<"l", ":">>, <<"t">>, <<"#", " ", "a">>>>
    /\ i = 3
    /\ transformed_lines = <<<<"l", ":", " ", "t">>, <<"1", ".", " ", "a">>>>

====
